---- MODULE Spec2Model ----
(***************************************************************************)
(* Authentication and authorization core of the stack API                  *)
(* (api/src: utils/auth.ts, utils/helpers.ts, services/authService.ts,     *)
(* services/userService.ts, middleware/auth.ts, routes/authRoutes.ts,      *)
(* routes/userRoutes.ts, db/operations/*.ts) over the users table created  *)
(* by scripts/db/init.ts.                                                  *)
(*                                                                         *)
(* Clients send HTTP requests; every handler runs as a sequence of steps   *)
(* that are separated by the awaited repository calls of the code, so that *)
(* the steps of concurrent requests interleave the way they do on the      *)
(* event loop.  The repository answers every query (it is available);      *)
(* an INSERT or UPDATE that breaks the UNIQUE constraint on users.email    *)
(* throws.                                                                 *)
(*                                                                         *)
(* Representation.  Names, emails, passwords and messages are strings.     *)
(* A user id is a natural number: n >= 1 stands for the n-th UUID the      *)
(* database generated, 0 for a string that is not a UUID.  A string that   *)
(* may carry a token is a record: Text(s) for plain text s, a "jwt" record *)
(* for a signed token with its claims.  A header is the list of the parts  *)
(* that split(' ') yields; <<>> is the absent header.  Time is counted in  *)
(* days (JWT_EXPIRES_IN = 24h = 1, JWT_REFRESH_EXPIRES_IN = 7d = 7).       *)
(***************************************************************************)
EXTENDS Integers, Sequences, FiniteSets, TLC

\* ------------------------------------------------------------------ bounds
\* The clients that send requests concurrently.
NumClients == 2
\* The number of rows the users table ever receives (seed row included).
MaxUsers == 3
\* The last instant (in days) the clock of SpecSession reaches.
MaxTime == 2
\* The last instant (in days) the clock of SpecExpiry reaches.
MaxLongTime == 8
\* The pool operations that run side by side.
NumDbOps == 3
\* The clients the pool hands out at most (`max` of the PoolConfig, scaled down).
MaxPool == 2
\* The calls of the client's AuthService that run side by side.
NumCalls == 2
\* The last instant (in hours) the browser's clock reaches.
MaxClientTime == 2

Clients == 1..NumClients

\* ------------------------------------------------------------- strings
UpperLetters == "ABCDEFGHIJKLMNOPQRSTUVWXYZ"
LowerLetters == "abcdefghijklmnopqrstuvwxyz"
Digits == "0123456789"
\* the class [@$!%*?&] of the password pattern
PasswordSymbols == "@$!%*?&"

CharAt(s, i) == SubSeq(s, i, i)

HasChar(class, c) == \E i \in 1..Len(class) : CharAt(class, i) = c

\* \s of the regular expressions and the characters trim() removes
IsWhitespace(c) == c \in {" ", "\t", "\n", "\r"}

LowerChar(c) ==
  IF HasChar(UpperLetters, c)
    THEN CharAt(LowerLetters, CHOOSE i \in 1..Len(UpperLetters) : CharAt(UpperLetters, i) = c)
    ELSE c

RECURSIVE toLowerCase(_)
toLowerCase(s) ==
  IF Len(s) = 0 THEN s
  ELSE LowerChar(CharAt(s, 1)) \o toLowerCase(SubSeq(s, 2, Len(s)))

RECURSIVE trimStart(_)
trimStart(s) ==
  IF Len(s) > 0 /\ IsWhitespace(CharAt(s, 1)) THEN trimStart(SubSeq(s, 2, Len(s))) ELSE s

RECURSIVE trimEnd(_)
trimEnd(s) ==
  IF Len(s) > 0 /\ IsWhitespace(CharAt(s, Len(s)))
    THEN trimEnd(SubSeq(s, 1, Len(s) - 1)) ELSE s

trim(s) == trimEnd(trimStart(s))

\* String.prototype.includes: case-sensitive substring search
includes(s, sub) ==
  \E i \in 1..(Len(s) - Len(sub) + 1) : SubSeq(s, i, i + Len(sub) - 1) = sub

\* /^[^\s@]+@[^\s@]+\.[^\s@]+$/
isValidEmail(email) ==
  /\ \A i \in 1..Len(email) : ~IsWhitespace(CharAt(email, i))
  /\ Cardinality({i \in 1..Len(email) : CharAt(email, i) = "@"}) = 1
  /\ \E i \in 2..Len(email) :
       /\ CharAt(email, i) = "@"
       /\ \E j \in (i + 2)..(Len(email) - 1) : CharAt(email, j) = "."

\* typeof str === 'string' && str.trim().length > 0
isValidString(str) == Len(trim(str)) > 0

\* /^(?=.*[a-z])(?=.*[A-Z])(?=.*\d)(?=.*[@$!%*?&])[A-Za-z\d@$!%*?&]{8,}$/
isValidPassword(password) ==
  /\ \E i \in 1..Len(password) : HasChar(LowerLetters, CharAt(password, i))
  /\ \E i \in 1..Len(password) : HasChar(UpperLetters, CharAt(password, i))
  /\ \E i \in 1..Len(password) : HasChar(Digits, CharAt(password, i))
  /\ \E i \in 1..Len(password) : HasChar(PasswordSymbols, CharAt(password, i))
  /\ \A i \in 1..Len(password) :
       \/ HasChar(LowerLetters, CharAt(password, i))
       \/ HasChar(UpperLetters, CharAt(password, i))
       \/ HasChar(Digits, CharAt(password, i))
       \/ HasChar(PasswordSymbols, CharAt(password, i))
  /\ Len(password) >= 8

\* /^[0-9a-f]{8}-[0-9a-f]{4}-4[0-9a-f]{3}-[89ab][0-9a-f]{3}-[0-9a-f]{12}$/i
isValidUuid(uuid) == uuid >= 1

\* ------------------------------------------------------------------ state
VARIABLES
  users,       \* the rows of the users table
  nextId,      \* the id the next INSERT receives (uuid_generate_v4: always fresh)
  now,         \* the clock
  pc,          \* pc[c]: where the request of client c stands
  req,         \* req[c]: the request in progress (route, params, body, req.user)
  last,        \* the response the latest step delivered (NoResponse: none)
  held,        \* the tokens the clients keep from the responses
  registered,  \* the emails register has stored so far (history)
  kept,        \* a token pair a client has put aside from an earlier response
  dbOp,        \* dbOp[o]: where the pool operation o stands (utils/database.ts)
  checkedOut,  \* the number of pool clients checked out and not released
  localStorage,\* the browser's storage entries of STORAGE_KEYS (client)
  svc,         \* svc[i]: where the call i of the client's AuthService stands
  dateNow,     \* Date.now() of the browser, in hours
  cleared,     \* history: the latest failed refresh and what has stored since
  http,        \* the call of HttpClient.request in progress (client)
  nextAuth,    \* the NextAuth session of the web client: its user and its JWT
  guard        \* what requireRole and AuthGuard did on their latest inputs

\* the state of the API routes
serverVars == <<users, nextId, now, pc, req, last, held, registered, kept>>
\* the state of the connection pool
poolVars == <<dbOp, checkedOut>>
\* what the API routes leave alone
\* the state of the browser client (client/lib/services/auth.ts)
clientVars == <<localStorage, svc, dateNow, cleared>>
others == <<poolVars, clientVars, http, nextAuth, guard>>
vars == <<serverVars, others>>

\* ---- the browser client (client/lib/services/auth.ts) ----

Calls == 1..NumCalls

\* localStorage.getItem gives null for it
Absent == [kind |-> "absent"]

\* STORAGE_KEYS.USER, ACCESS_TOKEN, REFRESH_TOKEN
AuthKeys == {"auth_user", "auth_access_token", "auth_refresh_token"}

\* the tokens the API answers with, as the client sees them: opaque strings
ClientAccessTokens == {"at1", "at2"}
ClientRefreshTokens == {"rt1", "rt2"}

\* `Date.now() + 60 * 60 * 1000`, in hours
TokenLifetime == 1

IdleCall == [op |-> "none", currentUser |-> Absent]

NotCleared == [on |-> FALSE, inFlight |-> {}, restored |-> FALSE]

\* getCurrentUser: JSON.parse of the USER entry, null when it is absent
getCurrentUser(ls) == ls["auth_user"]

\* isAuthenticated: !!(user?.accessToken && user.tokenExpires > Date.now())
isAuthenticated(ls, t) ==
  /\ getCurrentUser(ls) # Absent
  /\ getCurrentUser(ls).tokenExpires > t

\* storeAuthData: three setItem
storeAuthData(ls, authUser) ==
  [k \in AuthKeys |->
     IF k = "auth_user" THEN authUser
     ELSE IF k = "auth_access_token" THEN [kind |-> "token", token |-> authUser.accessToken]
     ELSE [kind |-> "token", token |-> authUser.refreshToken]]

\* clearAuthData as it would be if it left the refresh token in place
clearAuthDataKeepsRefreshToken(ls) ==
  [k \in AuthKeys |-> IF k = "auth_refresh_token" THEN ls[k] ELSE Absent]

\* clearAuthData: three removeItem
clearAuthData(ls) == [k \in AuthKeys |-> Absent]

\* the AuthUser login, register and refreshToken build from the response
AuthUser(accessToken, refreshToken, t) ==
  [kind |-> "user", id |-> 1, accessToken |-> accessToken,
   refreshToken |-> refreshToken, tokenExpires |-> t + TokenLifetime]

\* ---- the HTTP client (client/lib/api/http-client.ts) ----

\* API_CONFIG.RETRIES
RETRIES == 3

IdleRequest ==
  [pc |-> "idle", api |-> "none", attempt |-> 0, aborted |-> FALSE,
   sent |-> 0, fetchesAfterAbort |-> 0, delaysAfterAbort |-> 0,
   result |-> "none", status |-> 0]

\* the AuthApi functions: each goes through httpClient with the default
\* timeout and retries
AuthApiCalls == {"login", "register", "refreshToken", "getCurrentUser", "logout"}

\* what one `await fetch(url, init)` gives: a response with its status, or a
\* rejection (a TypeError of the network, the AbortError of the signal)
FetchOutcomes ==
  [status : {200, 400, 401, 500}] \cup [error : {"TypeError"}]

\* handleError: the AbortError becomes ERROR_MESSAGES.TIMEOUT, an error whose
\* message includes 'fetch' becomes ERROR_MESSAGES.NETWORK
handleError(error) ==
  IF error = "AbortError" THEN "TIMEOUT" ELSE "NETWORK"

\* one turn of the loop of executeRequest on the outcome of its fetch:
\* return the response, throw the error, or delay and go round again
executeRequest(outcome, attempt, retries) ==
  IF "error" \in DOMAIN outcome
  THEN IF attempt = retries THEN [do |-> "throw", error |-> outcome.error]
       ELSE [do |-> "delay"]
  ELSE LET status == outcome.status IN
       IF status >= 400 /\ status < 500 /\ (status \notin {401, 408, 429} \/ attempt = retries)
       THEN [do |-> "return", status |-> status]
       ELSE IF status >= 500 \/ status \in {401, 408, 429}
       THEN IF attempt = retries THEN [do |-> "return", status |-> status]
            ELSE [do |-> "delay"]
       ELSE [do |-> "return", status |-> status]

\* ---- the connection pool (utils/database.ts) ----

\* the operations that run side by side on the pool
DbOps == 1..NumDbOps

IdleOp == [kind |-> "none", pc |-> "idle", result |-> "none"]

\* `await pool.connect()` rejected: dbQuery has it outside its try and throws,
\* testDatabaseConnection catches it and returns false
afterConnectRejected(kind) ==
  IF kind = "dbQuery" THEN [result |-> "thrown"] ELSE [result |-> "false"]

\* dbQuery once `await client.query` has settled: return or rethrow, and
\* `finally { client.release() }`
dbQueryAfterQuery(ok) ==
  [result |-> IF ok THEN "returned" ELSE "thrown", release |-> TRUE]

\* testDatabaseConnection once `await client.query` has settled:
\* client.release() is the statement after the query inside the try; the
\* catch only logs and returns false
testDatabaseConnectionAfterQuery(ok) ==
  [result |-> IF ok THEN "true" ELSE "false", release |-> ok]

afterQuery(kind, ok) ==
  IF kind = "dbQuery" THEN dbQueryAfterQuery(ok)
  ELSE testDatabaseConnectionAfterQuery(ok)

\* null / undefined
Null == [kind |-> "null"]

\* a string that holds plain text
Text(s) == [kind |-> "text", text |-> s]

\* ------------------------------------------------------- configuration
JWT_SECRET == "your-super-secret-jwt-key-change-in-production"
JWT_EXPIRES_IN == 1
JWT_REFRESH_EXPIRES_IN == 7
BCRYPT_ROUNDS == 12
Issuer == "stack-api"
Audience == "stack-client"

\* ------------------------------------------------------------ password hash
\* bcrypt.hash: one-way; only comparePassword looks inside
hashPassword(password) == [algo |-> "bcrypt", rounds |-> BCRYPT_ROUNDS, of |-> password]

comparePassword(password, hash) == hash.of = password

\* ------------------------------------------------------------- token codec
\* jwt.sign(payload, secret, {expiresIn, issuer, audience})
jwtSign(payload, secret, expiresIn, issuer, audience) ==
  [kind |-> "jwt", userId |-> payload.userId, email |-> payload.email,
   iat |-> now, exp |-> now + expiresIn, iss |-> issuer, aud |-> audience,
   sig |-> secret]

\* generateToken as it would be if it signed for another audience than the
\* one verifyToken expects
generateTokenOtherAudience(user) ==
  jwtSign([userId |-> user.id, email |-> user.email], JWT_SECRET,
          JWT_EXPIRES_IN, Issuer, "stack-api")

generateToken(user) ==
  jwtSign([userId |-> user.id, email |-> user.email], JWT_SECRET,
          JWT_EXPIRES_IN, Issuer, Audience)

generateRefreshToken(user) ==
  jwtSign([userId |-> user.id, email |-> user.email], JWT_SECRET,
          JWT_REFRESH_EXPIRES_IN, Issuer, Audience)

\* jwt.verify as it would be if a token were still good at the instant it
\* expires
jwtVerifyLenient(token, secret, issuer, audience) ==
  IF token.kind # "jwt" THEN "JsonWebTokenError"
  ELSE IF token.sig # secret THEN "JsonWebTokenError"
  ELSE IF now > token.exp THEN "TokenExpiredError"
  ELSE IF token.aud # audience THEN "JsonWebTokenError"
  ELSE IF token.iss # issuer THEN "JsonWebTokenError"
  ELSE ""

\* jwt.verify(token, secret, {issuer, audience}) of jsonwebtoken: the name of
\* the error it throws, or "" when it returns the payload.  Its checks run
\* in the order: well-formed, signature, exp, audience, issuer.
jwtVerify(token, secret, issuer, audience) ==
  IF token.kind # "jwt" THEN "JsonWebTokenError"
  ELSE IF token.sig # secret THEN "JsonWebTokenError"
  ELSE IF now >= token.exp THEN "TokenExpiredError"
  ELSE IF token.aud # audience THEN "JsonWebTokenError"
  ELSE IF token.iss # issuer THEN "JsonWebTokenError"
  ELSE ""

Throw(message) == [ok |-> FALSE, error |-> message]

verifyToken(token) ==
  LET thrown == jwtVerify(token, JWT_SECRET, Issuer, Audience) IN
  IF thrown = ""
    THEN [ok |-> TRUE, error |-> "",
          decoded |-> [userId |-> token.userId, email |-> token.email,
                       iat |-> token.iat, exp |-> token.exp]]
  ELSE IF thrown = "TokenExpiredError" THEN Throw("Token has expired")
  ELSE IF thrown = "JsonWebTokenError" THEN Throw("Invalid token")
  ELSE Throw("Token verification failed")

\* extractTokenFromHeader as it would be if it did not compare the scheme
extractTokenFromHeaderAnyScheme(authHeader) ==
  IF authHeader = <<>> \/ authHeader = <<Text("")>> THEN Null
  ELSE IF Len(authHeader) # 2 THEN Null
  ELSE authHeader[2]

\* the parts of the header after split(' '); <<>> is the absent header
extractTokenFromHeader(authHeader) ==
  IF authHeader = <<>> \/ authHeader = <<Text("")>> THEN Null
  ELSE IF Len(authHeader) # 2 \/ authHeader[1] # Text("Bearer") THEN Null
  ELSE authHeader[2]

\* ---------------------------------------------------------- users table
\* scripts/db/init.ts createUsersTable: email VARCHAR(255) UNIQUE NOT NULL
UniqueViolation(rows) ==
  \E r1 \in rows, r2 \in rows : r1.id # r2.id /\ r1.email = r2.email

\* seedData: the admin row
SeedRows ==
  {[id |-> 1, name |-> "Tester", email |-> "amgaa.lcs@gmail.com",
    password_hash |-> hashPassword("qwertyQ123!"), role |-> "admin"]}

FirstRow(rows) == IF rows = {} THEN Null ELSE CHOOSE r \in rows : TRUE

\* authOperations.ts
UserWithPassword(row) ==
  [id |-> row.id, name |-> row.name, email |-> row.email,
   passwordHash |-> row.password_hash, role |-> row.role]

getUserByEmailForAuth(email) ==
  LET rows == {r \in users : r.email = email} IN
  IF rows = {} THEN Null ELSE UserWithPassword(FirstRow(rows))

getUserByIdForRefresh(userId) ==
  LET rows == {r \in users : r.id = userId} IN
  IF rows = {} THEN Null ELSE UserWithPassword(FirstRow(rows))

checkUserExists(email) == \E r \in users : r.email = email

\* userOperations.ts
UserOf(row) == [id |-> row.id, name |-> row.name, email |-> row.email, role |-> row.role]

userOps_getUserById(id) ==
  LET rows == {r \in users : r.id = id} IN
  IF rows = {} THEN Null ELSE UserOf(FirstRow(rows))

userOps_getUserByEmail(email) ==
  LET rows == {r \in users : r.email = email} IN
  IF rows = {} THEN Null ELSE UserOf(FirstRow(rows))

\* middleware/auth.ts getUserById: SELECT id, name, email, created_at, updated_at
getUserById(id) ==
  LET rows == {r \in users : r.id = id} IN
  IF rows = {} THEN Null
  ELSE LET row == FirstRow(rows) IN [id |-> row.id, name |-> row.name, email |-> row.email]

\* the user as it would be returned if the hash were not taken out
userAsStored(user) == user

\* const { passwordHash: _, ...userWithoutPassword } = user
userWithoutPassword(user) ==
  [id |-> user.id, name |-> user.name, email |-> user.email, role |-> user.role]


\* ------------------------------------------------------ what clients send
Names == {"Ann", " "}
Emails == {"a@x.c", "A@X.C", "ax.c"}
Passwords == {"Secur3!ab", "abc", " "}
LoginEmails == Emails \cup {"amgaa.lcs@gmail.com"}
LoginPasswords == Passwords \cup {"qwertyQ123!"}
\* the body of PUT /api/users/:id ("" stands for a field that is not sent)
UpdateBodies ==
  {[name |-> "", email |-> "", password |-> ""],
   [name |-> " ", email |-> "", password |-> ""],
   [name |-> "", email |-> "A@X.C", password |-> ""],
   [name |-> "", email |-> "ax.c", password |-> ""],
   [name |-> "", email |-> "", password |-> "abc"]}
TargetIds == 0..MaxUsers

\* The string functions above, tabulated once over the strings that occur.
EmailStrings == LoginEmails \cup {b.email : b \in UpdateBodies}
OtherStrings ==
  Names \cup LoginPasswords \cup {b.name : b \in UpdateBodies}
    \cup {b.password : b \in UpdateBodies} \cup {"", " ", "garbage"}
isValidEmailOf == [e \in EmailStrings |-> isValidEmail(e)]
isValidStringOf == [s \in OtherStrings |-> isValidString(s)]
trimOf == [s \in OtherStrings |-> trim(s)]
isValidPasswordOf == [p \in Passwords |-> isValidPassword(p)]
\* email.toLowerCase().trim()
lowerTrimOf == [e \in EmailStrings |-> trim(toLowerCase(e))]
toLowerCaseOf ==
  [e \in EmailStrings \cup {lowerTrimOf[x] : x \in EmailStrings} |-> toLowerCase(e)]

\* ------------------------------------------------------------ AuthService
\* login as it would be without email.toLowerCase()
loginEmailAsSent(email, password) ==
  IF ~isValidEmailOf[email] THEN Throw("Valid email is required")
  ELSE IF ~isValidStringOf[password] THEN Throw("Password is required")
  ELSE
    LET user == getUserByEmailForAuth(email) IN
    IF user = Null THEN Throw("Invalid credentials")
    ELSE IF ~comparePassword(password, user.passwordHash) THEN Throw("Invalid credentials")
    ELSE [ok |-> TRUE, error |-> "",
          user |-> userWithoutPassword(user),
          token |-> generateToken(userWithoutPassword(user)),
          refreshToken |-> generateRefreshToken(userWithoutPassword(user))]

\* login as it would be if a missing account were reported as such
loginTellsApart(email, password) ==
  IF ~isValidEmailOf[email] THEN Throw("Valid email is required")
  ELSE IF ~isValidStringOf[password] THEN Throw("Password is required")
  ELSE
    LET user == getUserByEmailForAuth(lowerTrimOf[email]) IN
    IF user = Null THEN Throw("User not found")
    ELSE IF ~comparePassword(password, user.passwordHash) THEN Throw("Invalid credentials")
    ELSE [ok |-> TRUE, error |-> "",
          user |-> userWithoutPassword(user),
          token |-> generateToken(userWithoutPassword(user)),
          refreshToken |-> generateRefreshToken(userWithoutPassword(user))]

\* AuthService.login: the value it returns or the error it throws
login(email, password) ==
  IF ~isValidEmailOf[email] THEN Throw("Valid email is required")
  ELSE IF ~isValidStringOf[password] THEN Throw("Password is required")
  ELSE
    LET user == getUserByEmailForAuth(lowerTrimOf[email]) IN
    IF user = Null THEN Throw("Invalid credentials")
    ELSE IF ~comparePassword(password, user.passwordHash) THEN Throw("Invalid credentials")
    ELSE [ok |-> TRUE, error |-> "",
          user |-> userWithoutPassword(user),
          token |-> generateToken(userWithoutPassword(user)),
          refreshToken |-> generateRefreshToken(userWithoutPassword(user))]

\* isValidString applied to a string that may carry a token
isValidTokenString(str) == str.kind = "jwt" \/ isValidStringOf[str.text]

\* the catch block of AuthService.refreshToken
refreshTokenCatch(message) ==
  IF \/ includes(message, "expired")
     \/ includes(message, "invalid")
     \/ includes(message, "verification failed")
    THEN Throw("Invalid or expired refresh token")
    ELSE Throw("Token refresh failed")

refreshTokenCatchOf ==
  [m \in {"Token has expired", "Invalid token", "Token verification failed",
          "User not found"} |-> refreshTokenCatch(m)]

\* the try block of AuthService.refreshToken
refreshTokenTry(refreshTokenString) ==
  LET v == verifyToken(refreshTokenString) IN
  IF ~v.ok THEN Throw(v.error)
  ELSE
    LET user == getUserByIdForRefresh(v.decoded.userId) IN
    IF user = Null THEN Throw("User not found")
    ELSE [ok |-> TRUE, error |-> "",
          user |-> userWithoutPassword(user),
          token |-> generateToken(userWithoutPassword(user)),
          refreshToken |-> generateRefreshToken(userWithoutPassword(user))]

\* AuthService.refreshToken
refreshToken(refreshTokenString) ==
  IF ~isValidTokenString(refreshTokenString) THEN Throw("Refresh token is required")
  ELSE
    LET r == refreshTokenTry(refreshTokenString) IN
    IF r.ok THEN r ELSE refreshTokenCatchOf[r.error]

\* AuthService.validateToken: the user, or Null
validateToken(tokenString) ==
  IF ~isValidTokenString(tokenString) THEN Null
  ELSE
    LET v == verifyToken(tokenString) IN
    IF ~v.ok THEN Null
    ELSE
      LET user == getUserByIdForRefresh(v.decoded.userId) IN
      IF user = Null THEN Null ELSE userWithoutPassword(user)

\* AuthService.register up to the call of checkUserExists: the error thrown, or ok
registerValidate(userData) ==
  IF ~isValidStringOf[userData.name] THEN Throw("Name is required")
  ELSE IF ~isValidEmailOf[userData.email] THEN Throw("Valid email is required")
  ELSE IF ~isValidStringOf[userData.password] THEN Throw("Password is required")
  ELSE [ok |-> TRUE, error |-> ""]

\* the lookup as it would be without email.toLowerCase()
registerLookupEmailAsSent(userData) == userData.email

\* the email register looks up with checkUserExists
registerLookupEmail(userData) == lowerTrimOf[userData.email]

\* the argument as it would be without email.toLowerCase()
registerCreateArgsAsSent(userData) ==
  [name |-> trimOf[userData.name],
   email |-> userData.email,
   password |-> userData.password]

\* the argument register passes to authOps.createUser
registerCreateArgs(userData) ==
  [name |-> trimOf[userData.name],
   email |-> lowerTrimOf[userData.email],
   password |-> userData.password]

\* the row INSERT INTO users (name, email, password_hash) adds (role DEFAULT 'user')
createUserRow(userData) ==
  [id |-> nextId, name |-> userData.name, email |-> userData.email,
   password_hash |-> hashPassword(userData.password), role |-> "user"]

\* ------------------------------------------------------------ UserService
\* updateUser as it would be without the ownership check
updateUserValidateAnyCaller(id, updateData, requestingUserId) ==
  IF ~isValidUuid(id) THEN Throw("Invalid user ID format")
  ELSE IF updateData.name # "" /\ ~isValidStringOf[updateData.name]
    THEN Throw("Name must be a valid string")
  ELSE IF updateData.email # "" /\ ~isValidEmailOf[updateData.email]
    THEN Throw("Email must be valid")
  ELSE [ok |-> TRUE, error |-> ""]

\* UserService.updateUser up to its first repository call
updateUserValidate(id, updateData, requestingUserId) ==
  IF ~isValidUuid(id) THEN Throw("Invalid user ID format")
  ELSE IF requestingUserId # id THEN Throw("You can only update your own profile")
  ELSE IF updateData.name # "" /\ ~isValidStringOf[updateData.name]
    THEN Throw("Name must be a valid string")
  ELSE IF updateData.email # "" /\ ~isValidEmailOf[updateData.email]
    THEN Throw("Email must be valid")
  ELSE [ok |-> TRUE, error |-> ""]

\* the userData UserService.updateUser passes to userOps.updateUser
\* ("" and Null stand for a field that is not set)
updateUserData(updateData) ==
  [name |-> IF updateData.name # "" THEN trimOf[updateData.name] ELSE "",
   email |-> IF updateData.email # "" THEN lowerTrimOf[updateData.email] ELSE "",
   passwordHash |-> IF updateData.password # "" THEN hashPassword(updateData.password)
                    ELSE Null]

\* the row UPDATE users SET ... WHERE id = $n leaves
updatedRow(row, userData) ==
  [row EXCEPT
     !.name = IF userData.name # "" THEN userData.name ELSE @,
     !.email = IF userData.email # "" THEN userData.email ELSE @,
     !.password_hash = IF userData.passwordHash # Null THEN userData.passwordHash ELSE @]

\* UserService.deleteUser up to its first repository call
deleteUserValidate(id, requestingUserId) ==
  IF ~isValidUuid(id) THEN Throw("Invalid user ID format")
  ELSE IF requestingUserId # id THEN Throw("You can only delete your own profile")
  ELSE [ok |-> TRUE, error |-> ""]

\* ------------------------------------------------------------- middleware
\* authenticateToken as it would be if it took the identity from the payload
\* of the token and did not look the user up
authenticateTokenTrustsPayload(authorization) ==
  LET token == extractTokenFromHeader(authorization) IN
  IF token = Null \/ token = Text("")
    THEN [next |-> 0, status |-> 401, message |-> "Authentication required", user |-> Null]
  ELSE
    LET v == verifyToken(token) IN
    IF ~v.ok THEN [next |-> 0, status |-> 401, message |-> v.error, user |-> Null]
    ELSE [next |-> 1, status |-> 0, message |-> "",
          user |-> [id |-> v.decoded.userId, name |-> "", email |-> v.decoded.email]]

\* authenticateToken as it would be if it also compared the email of the
\* payload with the email of the record
authenticateTokenChecksEmail(authorization) ==
  LET token == extractTokenFromHeader(authorization) IN
  IF token = Null \/ token = Text("")
    THEN [next |-> 0, status |-> 401, message |-> "Authentication required", user |-> Null]
  ELSE
    LET v == verifyToken(token) IN
    IF ~v.ok THEN [next |-> 0, status |-> 401, message |-> v.error, user |-> Null]
    ELSE
      LET user == getUserById(v.decoded.userId) IN
      IF user = Null \/ user.email # v.decoded.email
        THEN [next |-> 0, status |-> 401, message |-> "User not found", user |-> Null]
        ELSE [next |-> 1, status |-> 0, message |-> "", user |-> user]

\* authenticateToken: next |-> 1 when it calls next(), else the 401 it sends
authenticateToken(authorization) ==
  LET token == extractTokenFromHeader(authorization) IN
  IF token = Null \/ token = Text("")
    THEN [next |-> 0, status |-> 401, message |-> "Authentication required", user |-> Null]
  ELSE
    LET v == verifyToken(token) IN
    IF ~v.ok THEN [next |-> 0, status |-> 401, message |-> v.error, user |-> Null]
    ELSE
      LET user == getUserById(v.decoded.userId) IN
      IF user = Null
        THEN [next |-> 0, status |-> 401, message |-> "User not found", user |-> Null]
        ELSE [next |-> 1, status |-> 0, message |-> "", user |-> user]

\* middleware getUserById when the repository may be down: getDbQuery yields
\* null or the query throws, and the function returns null
getUserByIdWhen(id, dbUp) == IF dbUp THEN getUserById(id) ELSE Null

\* optionalAuth as it would be if it answered like authenticateToken
optionalAuthRejects(authorization, dbUp) ==
  LET token == extractTokenFromHeader(authorization) IN
  IF token = Null \/ token = Text("")
    THEN [next |-> 1, status |-> 0, message |-> "", user |-> Null]
  ELSE
    LET v == verifyToken(token) IN
    IF ~v.ok THEN [next |-> 0, status |-> 401, message |-> v.error, user |-> Null]
    ELSE [next |-> 1, status |-> 0, message |-> "",
          user |-> getUserByIdWhen(v.decoded.userId, dbUp)]

\* optionalAuth: the number of times it calls next(), the response it sends
\* (status 0: none) and req.user (Null: not set)
optionalAuth(authorization, dbUp) ==
  LET token == extractTokenFromHeader(authorization) IN
  IF token = Null \/ token = Text("")
    THEN [next |-> 1, status |-> 0, message |-> "", user |-> Null]
  ELSE
    LET v == verifyToken(token) IN
    IF ~v.ok
      THEN \* verifyToken throws; the catch block calls next()
           [next |-> 1, status |-> 0, message |-> "", user |-> Null]
      ELSE [next |-> 1, status |-> 0, message |-> "",
            user |-> getUserByIdWhen(v.decoded.userId, dbUp)]

\* ----------------------------------------------------------------- routes
Response(status, message, error, data) ==
  [status |-> status, message |-> message, error |-> error, data |-> data]

\* POST /api/auth/register: the catch block
registerRouteError(message) ==
  IF message \in {"Name is required", "Valid email is required", "Password is required"}
    THEN Response(400, message, message, Null)
  ELSE IF message = "User already exists" THEN Response(409, message, message, Null)
  ELSE Response(500, "Failed to register user", message, Null)

\* what becomes of the UPDATE of updateLastLogin: it succeeds, it throws
\* (updateLastLogin catches and logs), or it has not come back yet
UpdateFates == {"done", "fails", "pending"}

\* login as it would be if it awaited the update and let its failure through
loginSettledAwaited(r, fate) ==
  IF fate = "fails" THEN Throw("Error updating last login")
  ELSE IF fate = "pending" THEN Throw("(no result yet)")
  ELSE r

\* what AuthService.login returns once it has started updateLastLogin:
\* `authOps.updateLastLogin(user.id).catch(() => {})` is not awaited
loginSettled(r, fate) == r

\* POST /api/auth/login: the response to what AuthService.login returned or threw
loginResponse(r) ==
  IF r.ok
    THEN Response(200, "Login successful", "",
                  [user |-> r.user, token |-> r.token, refreshToken |-> r.refreshToken])
  ELSE IF r.error \in {"Valid email is required", "Password is required"}
    THEN Response(400, r.error, r.error, Null)
  ELSE IF r.error = "Invalid credentials"
    THEN Response(401, "Invalid email or password", r.error, Null)
  ELSE Response(500, "Login failed", r.error, Null)

\* POST /api/auth/login
loginRoute(email, password, fate) ==
  LET r == login(email, password) IN
  loginResponse(IF r.ok THEN loginSettled(r, fate) ELSE r)

\* POST /api/auth/refresh
refreshRoute(token) ==
  IF token = Text("") THEN Response(400, "Refresh token is required", "", Null)
  ELSE
    LET r == refreshToken(token) IN
    IF r.ok
      THEN Response(200, "Token refreshed successfully", "",
                    [user |-> r.user, accessToken |-> r.token])
    ELSE IF r.error = "Refresh token is required" THEN Response(400, r.error, r.error, Null)
    ELSE IF r.error \in {"Invalid or expired refresh token", "Token refresh failed"}
      THEN Response(401, "Invalid refresh token", r.error, Null)
    ELSE IF r.error = "User not found" THEN Response(404, r.error, r.error, Null)
    ELSE Response(500, "Failed to refresh token", r.error, Null)

\* PUT /api/users/:id: the catch block
updateRouteError(message) ==
  IF message = "Invalid user ID format" THEN Response(400, "Invalid user ID", message, Null)
  ELSE IF message = "You can only update your own profile"
    THEN Response(403, message, message, Null)
  ELSE IF message \in {"Name must be a valid string", "Email must be valid"}
    THEN Response(400, message, message, Null)
  ELSE IF message = "Email already exists" THEN Response(409, message, message, Null)
  ELSE IF message = "User not found" THEN Response(404, message, message, Null)
  ELSE Response(500, "Failed to update user", message, Null)

\* DELETE /api/users/:id: the catch block
deleteRouteError(message) ==
  IF message = "Invalid user ID format" THEN Response(400, "Invalid user ID", message, Null)
  ELSE IF message = "You can only delete your own profile"
    THEN Response(403, message, message, Null)
  ELSE IF message = "User not found" THEN Response(404, message, message, Null)
  ELSE Response(500, "Failed to delete user", message, Null)

\* ---------------------------------------------------------------- clients
NoTokens == [access |-> Text(""), refresh |-> Text("")]
NoRequest == [route |-> "none"]
NoResponse ==
  [op |-> "none", status |-> 0, message |-> "", error |-> "", data |-> Null, g |-> Null]

\* the tokens the clients hold (a bearer token serves whoever presents it)
HeldTokens ==
  {t \in {held.access, held.refresh, kept.access, kept.refresh} : t.kind = "jwt"}

\* a held token with its signature broken, or as another service that shares
\* the secret would have signed it
Tampered(t) ==
  {[t EXCEPT !.sig = "forged"], [t EXCEPT !.iss = "other-api"],
   [t EXCEPT !.aud = "other-client"]}

TokenStrings ==
  HeldTokens \cup UNION {Tampered(t) : t \in HeldTokens}
    \cup {Text(""), Text("garbage")}

\* the refreshToken field of the body of POST /api/auth/refresh
RefreshInputs == TokenStrings \cup {Text(" ")}

\* the Authorization header, split at its spaces
Headers ==
  {<<>>, <<Text("")>>, <<Text("Bearer")>>}
    \cup {<<Text("Bearer"), t>> : t \in TokenStrings}
    \cup {<<Text("bearer"), t>> : t \in HeldTokens}
    \cup {<<Text("Basic"), t>> : t \in HeldTokens}
    \cup {<<Text("Bearer"), Text(""), t>> : t \in HeldTokens}

\* ------------------------------------------- what the claims speak about
\* equality of emails under case-insensitive comparison
SameEmail(e1, e2) == toLowerCaseOf[e1] = toLowerCaseOf[e2]

\* how the server issued a token string
IssuedAs(t) ==
  IF t.kind = "jwt" /\ t \in {held.refresh, kept.refresh} THEN "refresh"
  ELSE IF t.kind = "jwt" /\ t \in {held.access, kept.access} THEN "access"
  ELSE "never"

\* the verification checks a token string fails
FailedChecks(t) ==
  IF t.kind # "jwt" THEN (IF isValidStringOf[t.text] THEN {"malformed"} ELSE {"missing"})
  ELSE {k \in {"signature", "issuer", "audience", "expired"} :
          \/ k = "signature" /\ t.sig # JWT_SECRET
          \/ k = "issuer" /\ t.iss # Issuer
          \/ k = "audience" /\ t.aud # Audience
          \/ k = "expired" /\ now >= t.exp}

\* the header has the form 'Bearer <token>'
IsBearerForm(h) == Len(h) = 2 /\ h[1] = Text("Bearer") /\ h[2] # Text("")

\* the repository record whose id is the userId of a token string, as the
\* middleware selects it (id, name, email)
RecordOf(t) ==
  IF t.kind = "jwt" /\ \E u \in users : u.id = t.userId
    THEN LET u == CHOOSE u \in users : u.id = t.userId
         IN [id |-> u.id, name |-> u.name, email |-> u.email]
    ELSE Null

\* the ids of the accounts that have been deleted (ids are never reused)
DeletedIds == {i \in 1..(nextId - 1) : ~\E u \in users : u.id = i}

\* the token string the header carries, whatever its form
Presented(h) == IF Len(h) >= 2 THEN h[Len(h)] ELSE Text("")

Received(op, r, g) ==
  [op |-> op, status |-> r.status, message |-> r.message, error |-> r.error,
   data |-> r.data, g |-> g]

\* ---- the role guards ----

\* the values of role
Roles == {"admin", "user"}

\* the middleware requireRole(roles) returns, on a request whose req.user is
\* user (Null: none attached): the status it answers with (0: none) and
\* whether it calls next()
requireRole(roles, user) ==
  IF user = Null THEN [status |-> 401, next |-> FALSE]
  ELSE [status |-> 0, next |-> TRUE]

\* the sessions useSession() gives
Sessions ==
  {[status |-> "loading", role |-> "", error |-> ""],
   [status |-> "unauthenticated", role |-> "", error |-> ""]}
  \cup [status : {"authenticated"}, role : Roles, error : {"", "RefreshAccessTokenError"}]

\* useAuthGuard: the flags it returns and the page its effect pushes after
\* the render ("": none)
useAuthGuard(session, requiredRole, redirectTo) ==
  [isLoading |-> session.status = "loading",
   isAuthenticated |-> session.status = "authenticated",
   push |-> IF session.status = "loading" THEN ""
            ELSE IF session.status = "unauthenticated" THEN redirectTo
            ELSE IF session.error = "RefreshAccessTokenError"
              THEN "/auth/signin?error=session-expired"
            ELSE IF requiredRole # "" /\ session.role # requiredRole THEN "/unauthorized"
            ELSE ""]

\* AuthGuard: what it renders
AuthGuard(session, requiredRole, redirectTo) ==
  LET h == useAuthGuard(session, requiredRole, redirectTo) IN
  IF h.isLoading THEN "fallback"
  ELSE IF ~h.isAuthenticated THEN "null"
  ELSE "children"

\* ---- the NextAuth options of the web client ----

\* `24 * 60 * 60 * 1000` milliseconds, in days
AccessTokenLifetime == 1

SignedOut == [pc |-> "signedOut", user |-> Null, token |-> Null, g |-> Null]

\* authorize(credentials): the user object made of the answer of
\* POST /api/auth/login, or Null when it throws
authorize(email, password) ==
  LET response == loginRoute(email, password, "done") IN
  IF response.status < 200 \/ response.status > 299 THEN Null
  ELSE IF response.data = Null \/ "user" \notin DOMAIN response.data THEN Null
  ELSE [id |-> response.data.user.id, role |-> response.data.user.role,
        accessToken |-> response.data.token,
        refreshToken |-> response.data.refreshToken]

\* refreshAccessToken(token): the fetch of POST /api/auth/refresh and what is
\* made of its answer
refreshAccessToken(token) ==
  LET response == refreshRoute(token.refreshToken) IN
  IF response.status < 200 \/ response.status > 299 THEN Throw("Refresh failed")
  ELSE IF \/ response.data = Null
          \/ "user" \notin DOMAIN response.data
          \/ "token" \notin DOMAIN response.data
    THEN Throw("Invalid refresh response structure")
  ELSE [ok |-> TRUE, error |-> "",
        token |-> [token EXCEPT
                     !.accessToken = response.data.token,
                     !.refreshToken = IF "refreshToken" \in DOMAIN response.data
                                      THEN response.data.refreshToken ELSE @,
                     !.accessTokenExpires = now + AccessTokenLifetime,
                     !.id = response.data.user.id,
                     !.role = response.data.user.role,
                     !.error = ""]]

\* callbacks.jwt on the initial sign in: the tokens of the user go into the
\* token with an expiry counted from Date.now()
jwtSignIn(user) ==
  [accessToken |-> user.accessToken, refreshToken |-> user.refreshToken,
   role |-> user.role, id |-> user.id,
   accessTokenExpires |-> now + AccessTokenLifetime, error |-> ""]

\* callbacks.jwt on a later call (no user, no update trigger): the token as
\* it is while Date.now() < accessTokenExpires or when no expiry is set,
\* otherwise the refreshed token, or the token with RefreshAccessTokenError
jwt(token) ==
  IF token.accessTokenExpires # 0 /\ now < token.accessTokenExpires THEN token
  ELSE IF token.accessTokenExpires = 0 THEN token
  ELSE LET r == refreshAccessToken(token) IN
       IF r.ok THEN r.token
       ELSE [token EXCEPT !.error = "RefreshAccessTokenError"]

\* ------------------------------------------------------------------ Init
\* the database after scripts/db/init.ts, no request yet
Init ==
  /\ users = SeedRows
  /\ nextId = 2
  /\ now = 0
  /\ pc = [c \in Clients |-> "idle"]
  /\ req = [c \in Clients |-> NoRequest]
  /\ last = NoResponse
  /\ held = NoTokens
  /\ registered = {}
  /\ kept = NoTokens
  /\ dbOp = [o \in DbOps |-> IdleOp]
  /\ checkedOut = 0
  /\ localStorage = [k \in AuthKeys |-> Absent]
  /\ svc = [i \in Calls |-> IdleCall]
  /\ dateNow = 0
  /\ cleared = NotCleared
  /\ http = IdleRequest
  /\ nextAuth = SignedOut
  /\ guard = [mw |-> Null, ui |-> Null]

\* ---------------------------------------------------- POST /api/auth/register
\* the route and AuthService.register up to `await authOps.checkUserExists`
RegisterStart(c) ==
  /\ last = NoResponse
  /\ pc[c] = "idle"
  /\ \E name \in Names, email \in Emails, password \in Passwords :
       LET userData == [name |-> name, email |-> email, password |-> password]
           v == registerValidate(userData)
           g == [priorReg |-> \E e \in registered : SameEmail(e, email),
                 taken |-> \E u \in users : SameEmail(u.email, email),
                 email |-> email,
                 policyOk |-> isValidPasswordOf[password],
                 repo |-> v.ok, created |-> FALSE, raced |-> FALSE, issued |-> FALSE]
       IN
       IF ~v.ok
         THEN /\ last' = Received("register", registerRouteError(v.error), g)
              /\ UNCHANGED <<pc, req>>
       ELSE IF checkUserExists(registerLookupEmail(userData))
         THEN /\ last' = Received("register", registerRouteError("User already exists"), g)
              /\ UNCHANGED <<pc, req>>
       ELSE /\ nextId + Cardinality({q \in Clients : pc[q] = "register_createUser"})
                 <= MaxUsers
            /\ pc' = [pc EXCEPT ![c] = "register_createUser"]
            /\ req' = [req EXCEPT ![c] =
                         [route |-> "register", userData |-> userData, g |-> g]]
            /\ last' = NoResponse
  /\ UNCHANGED <<users, nextId, now, held, registered, kept>>
  /\ UNCHANGED others

\* authOps.createUser (INSERT), token issuance and the response
RegisterCreateUser(c) ==
  /\ last = NoResponse
  /\ pc[c] = "register_createUser"
  /\ LET userData == registerCreateArgs(req[c].userData)
         row == createUserRow(userData)
         newUser == UserOf(row)
     IN
     IF UniqueViolation(users \cup {row})
       THEN \* the INSERT throws, createUser rethrows, the route answers 500
            /\ last' = Received("register",
                                registerRouteError("duplicate key value violates unique constraint"),
                                req[c].g)
            /\ req' = [req EXCEPT ![c] = NoRequest]
            /\ UNCHANGED <<users, nextId, held, registered>>
       ELSE /\ users' = users \cup {row}
            /\ nextId' = nextId + 1
            /\ registered' = registered \cup {row.email}
            /\ last' = Received("register",
                                Response(201, "User registered successfully", "",
                                         [user |-> newUser,
                                          token |-> generateToken(newUser),
                                          refreshToken |-> generateRefreshToken(newUser)]),
                                [req[c].g EXCEPT !.created = TRUE, !.issued = TRUE])
            /\ held' = [access |-> generateToken(newUser),
                        refresh |-> generateRefreshToken(newUser)]
            /\ req' = [q \in Clients |->
                         IF q = c THEN NoRequest
                         ELSE IF pc[q] = "register_createUser"
                                 /\ SameEmail(req[q].userData.email, req[c].userData.email)
                           THEN [req[q] EXCEPT !.g.raced = TRUE]
                         ELSE req[q]]
  /\ pc' = [pc EXCEPT ![c] = "idle"]
  /\ UNCHANGED <<now, kept>>
  /\ UNCHANGED others

\* -------------------------------------------------------- POST /api/auth/login
\* One repository read (getUserByEmailForAuth); updateLastLogin is not awaited
\* and only touches updated_at, which nothing reads: whatever becomes of it
\* leaves no trace in the state.
Login(c) ==
  /\ last = NoResponse
  /\ pc[c] = "idle"
  /\ \E email \in LoginEmails, password \in LoginPasswords, fate \in UpdateFates :
       LET r == loginRoute(email, password, fate)
           rows == {u \in users : SameEmail(u.email, email)}
           g == [case |-> IF ~isValidEmailOf[email] \/ ~isValidStringOf[password]
                            THEN "malformed"
                          ELSE IF rows = {} THEN "no_record"
                          ELSE IF \A u \in rows : u.password_hash # hashPassword(password)
                            THEN "wrong_password"
                          ELSE "correct",
                 email |-> email,
                 lastLogin |-> IF login(email, password).ok THEN fate ELSE "none"]
       IN
       /\ last' = Received("login", r, g)
       /\ held' = IF r.status = 200
                    THEN [access |-> r.data.token, refresh |-> r.data.refreshToken]
                    ELSE held
  /\ UNCHANGED <<users, nextId, now, pc, req, registered, kept>>
  /\ UNCHANGED others

\* AuthService.logout(userId): updateLastLogin sets updated_at, which nothing
\* reads; no token is touched and nothing is returned
Logout(c) ==
  /\ last = NoResponse
  /\ pc[c] = "idle"
  /\ \E userId \in TargetIds :
       last' = Received("logout", Response(0, "", "", Null), [userId |-> userId])
  /\ UNCHANGED <<users, nextId, now, pc, req, held, registered, kept>>
  /\ UNCHANGED others

\* ------------------------------------------------------ POST /api/auth/refresh
\* One repository read (getUserByIdForRefresh).  The client keeps the access
\* token of the response; the response carries no refresh token.
Refresh(c) ==
  /\ last = NoResponse
  /\ pc[c] = "idle"
  /\ \E token \in RefreshInputs :
       LET r == refreshRoute(token)
           g == [issuedAs |-> IssuedAs(token),
                 failed |-> FailedChecks(token),
                 userGone |-> token.kind = "jwt" /\ ~\E u \in users : u.id = token.userId]
       IN
       /\ last' = Received("refresh", r, g)
       /\ held' = IF r.status = 200 THEN [held EXCEPT !.access = r.data.accessToken]
                  ELSE held
  /\ UNCHANGED <<users, nextId, now, pc, req, registered, kept>>
  /\ UNCHANGED others

\* ------------------------------------------------- the authenticated routes
\* authenticateToken, the same in front of GET /api/auth/me, PUT /api/users/:id
\* and DELETE /api/users/:id; the handler of the route runs next
AuthenticateToken(c) ==
  /\ last = NoResponse
  /\ pc[c] = "idle"
  /\ \E authorization \in Headers :
       LET m == authenticateToken(authorization)
           t == Presented(authorization)
           g == [bearerForm |-> IsBearerForm(authorization),
                 issuedAs |-> IssuedAs(t),
                 verifies |-> verifyToken(t).ok,
                 record |-> RecordOf(t),
                 gone |-> t.kind = "jwt" /\ t.userId \in DeletedIds,
                 tokenUser |-> IF t.kind = "jwt" THEN t.userId ELSE 0]
       IN
       IF m.next = 1
         THEN /\ pc' = [pc EXCEPT ![c] = "authenticated"]
              /\ req' = [req EXCEPT ![c] = [route |-> "protected", user |-> m.user, g |-> g]]
              /\ last' = NoResponse
         ELSE /\ last' = Received("authenticate", Response(m.status, m.message, "", Null), g)
              /\ UNCHANGED <<pc, req>>
  /\ UNCHANGED <<users, nextId, now, held, registered, kept>>
  /\ UNCHANGED others

\* optionalAuth in front of a handler (no route of the API uses it: what is
\* observed is what the middleware hands on); the repository may be down
OptionalAuth(c) ==
  /\ last = NoResponse
  /\ pc[c] = "idle"
  /\ \E authorization \in Headers, dbUp \in BOOLEAN :
       LET m == optionalAuth(authorization, dbUp)
           t == Presented(authorization)
           g == [bearerForm |-> IsBearerForm(authorization),
                 verifies |-> verifyToken(t).ok,
                 record |-> RecordOf(t),
                 dbUp |-> dbUp,
                 next |-> m.next]
       IN last' = Received("optionalAuth", Response(m.status, m.message, "", m.user), g)
  /\ UNCHANGED <<users, nextId, now, pc, req, held, registered, kept>>
  /\ UNCHANGED others

\* GET /api/auth/me: the handler
GetMe(c) ==
  /\ last = NoResponse
  /\ pc[c] = "authenticated"
  /\ last' = Received("me",
                      Response(200, "User profile retrieved successfully", "", req[c].user),
                      req[c].g)
  /\ pc' = [pc EXCEPT ![c] = "idle"]
  /\ req' = [req EXCEPT ![c] = NoRequest]
  /\ UNCHANGED <<users, nextId, now, held, registered, kept>>
  /\ UNCHANGED others

\* what a response to PUT or DELETE /api/users/:id was about
Access(c, id, mutated, repo) ==
  [caller |-> req[c].user.id, tokenUser |-> req[c].g.tokenUser, target |-> id,
   mutated |-> mutated, repo |-> repo]

\* PUT /api/users/:id: the handler and UserService.updateUser up to
\* `await userOps.getUserById`
UpdateUserStart(c) ==
  /\ last = NoResponse
  /\ pc[c] = "authenticated"
  /\ \E id \in TargetIds, updateData \in UpdateBodies :
       LET v == updateUserValidate(id, updateData, req[c].user.id) IN
       IF ~v.ok
         THEN /\ last' = Received("put", updateRouteError(v.error),
                                  Access(c, id, FALSE, "none"))
              /\ pc' = [pc EXCEPT ![c] = "idle"]
              /\ req' = [req EXCEPT ![c] = NoRequest]
       ELSE IF userOps_getUserById(id) = Null
         THEN /\ last' = Received("put", updateRouteError("User not found"),
                                  Access(c, id, FALSE, "read"))
              /\ pc' = [pc EXCEPT ![c] = "idle"]
              /\ req' = [req EXCEPT ![c] = NoRequest]
       ELSE /\ last' = NoResponse
            /\ pc' = [pc EXCEPT ![c] =
                        IF updateData.email # "" THEN "update_getUserByEmail"
                        ELSE "update_updateUser"]
            /\ req' = [req EXCEPT ![c] =
                         [route |-> "put", user |-> req[c].user, g |-> req[c].g,
                          id |-> id, updateData |-> updateData]]
  /\ UNCHANGED <<users, nextId, now, held, registered, kept>>
  /\ UNCHANGED others

\* UserService.updateUser: `await userOps.getUserByEmail`
UpdateUserCheckEmail(c) ==
  /\ last = NoResponse
  /\ pc[c] = "update_getUserByEmail"
  /\ LET existingEmailUser ==
           userOps_getUserByEmail(updateUserData(req[c].updateData).email)
     IN
     IF existingEmailUser # Null /\ existingEmailUser.id # req[c].id
       THEN /\ last' = Received("put", updateRouteError("Email already exists"),
                                Access(c, req[c].id, FALSE, "read"))
            /\ pc' = [pc EXCEPT ![c] = "idle"]
            /\ req' = [req EXCEPT ![c] = NoRequest]
       ELSE /\ last' = NoResponse
            /\ pc' = [pc EXCEPT ![c] = "update_updateUser"]
            /\ UNCHANGED req
  /\ UNCHANGED <<users, nextId, now, held, registered, kept>>
  /\ UNCHANGED others

\* userOps.updateUser (UPDATE ... RETURNING) and the response
UpdateUserWrite(c) ==
  /\ last = NoResponse
  /\ pc[c] = "update_updateUser"
  /\ LET rows == {r \in users : r.id = req[c].id}
         row == FirstRow(rows)
         newRow == updatedRow(row, updateUserData(req[c].updateData))
         newUsers == (users \ rows) \cup {newRow}
     IN
     IF rows = {} \/ UniqueViolation(newUsers)
       THEN \* no row, or the UPDATE throws and updateUser returns null
            /\ last' = Received("put", Response(404, "User not found", "", Null),
                                Access(c, req[c].id, FALSE, "write"))
            /\ UNCHANGED users
       ELSE /\ users' = newUsers
            /\ last' = Received("put",
                                Response(200, "User updated successfully", "", UserOf(newRow)),
                                Access(c, req[c].id, TRUE, "write"))
  /\ pc' = [pc EXCEPT ![c] = "idle"]
  /\ req' = [req EXCEPT ![c] = NoRequest]
  /\ UNCHANGED <<nextId, now, held, registered, kept>>
  /\ UNCHANGED others

\* DELETE /api/users/:id: the handler and UserService.deleteUser up to
\* `await userOps.getUserById`
DeleteUserStart(c) ==
  /\ last = NoResponse
  /\ pc[c] = "authenticated"
  /\ \E id \in TargetIds :
       LET v == deleteUserValidate(id, req[c].user.id) IN
       IF ~v.ok
         THEN /\ last' = Received("delete", deleteRouteError(v.error),
                                  Access(c, id, FALSE, "none"))
              /\ pc' = [pc EXCEPT ![c] = "idle"]
              /\ req' = [req EXCEPT ![c] = NoRequest]
       ELSE IF userOps_getUserById(id) = Null
         THEN /\ last' = Received("delete", deleteRouteError("User not found"),
                                  Access(c, id, FALSE, "read"))
              /\ pc' = [pc EXCEPT ![c] = "idle"]
              /\ req' = [req EXCEPT ![c] = NoRequest]
       ELSE /\ last' = NoResponse
            /\ pc' = [pc EXCEPT ![c] = "delete_deleteUser"]
            /\ req' = [req EXCEPT ![c] =
                         [route |-> "delete", user |-> req[c].user, g |-> req[c].g,
                          id |-> id]]
  /\ UNCHANGED <<users, nextId, now, held, registered, kept>>
  /\ UNCHANGED others

\* userOps.deleteUser (DELETE) and the response
DeleteUserWrite(c) ==
  /\ last = NoResponse
  /\ pc[c] = "delete_deleteUser"
  /\ LET rows == {r \in users : r.id = req[c].id} IN
     IF rows = {}
       THEN /\ last' = Received("delete", Response(404, "User not found", "", Null),
                                Access(c, req[c].id, FALSE, "write"))
            /\ UNCHANGED users
       ELSE /\ users' = users \ rows
            /\ last' = Received("delete",
                                Response(200, "User deleted successfully", "",
                                         [deleted |-> TRUE]),
                                Access(c, req[c].id, TRUE, "write"))
  /\ pc' = [pc EXCEPT ![c] = "idle"]
  /\ req' = [req EXCEPT ![c] = NoRequest]
  /\ UNCHANGED <<nextId, now, held, registered, kept>>
  /\ UNCHANGED others

\* ------------------------------------------------------------------ clock
TickLong ==
  /\ last = NoResponse
  /\ now < MaxLongTime
  /\ now' = now + 1
  /\ last' = NoResponse
  /\ UNCHANGED <<users, nextId, pc, req, held, registered, kept>>
  /\ UNCHANGED others

\* a day passes (within the first MaxTime days)
Tick ==
  /\ last = NoResponse
  /\ now < MaxTime
  /\ now' = now + 1
  /\ UNCHANGED <<users, nextId, pc, req, last, held, registered, kept>>
  /\ UNCHANGED others

\* a client puts the token pair it holds aside and goes on using it later,
\* whatever pairs it receives afterwards (tokens are bearer tokens: nothing
\* ties them to the session that received them)
PutAside ==
  /\ last = NoResponse
  /\ kept = NoTokens
  /\ held # NoTokens
  /\ kept' = held
  /\ UNCHANGED <<users, nextId, now, pc, req, last, held, registered>>
  /\ UNCHANGED others

\* --------------------------------------------------------- specifications
Serve(c) ==
  \/ RegisterStart(c)
  \/ RegisterCreateUser(c)
  \/ Login(c)
  \/ Refresh(c)
  \/ AuthenticateToken(c)
  \/ GetMe(c)
  \/ UpdateUserStart(c)
  \/ UpdateUserCheckEmail(c)
  \/ UpdateUserWrite(c)
  \/ DeleteUserStart(c)
  \/ DeleteUserWrite(c)

\* the client takes the response; every other step waits for that
Deliver ==
  /\ last # NoResponse
  /\ last' = NoResponse
  /\ UNCHANGED <<users, nextId, now, pc, req, held, registered, kept>>
  /\ UNCHANGED others

Next ==
  \/ \E c \in Clients : Serve(c)
  \/ Deliver

\* every route, concurrent clients, within one day (the clock stands)
Spec == Init /\ [][Next]_vars

NextSession ==
  \/ Tick
  \/ PutAside
  \/ Serve(1)
  \/ OptionalAuth(1)
  \/ Logout(1)
  \/ Deliver

\* one client that may keep an earlier token pair, every route, MaxTime days
SpecSession == Init /\ [][NextSession]_vars

NextExpiry ==
  \/ TickLong
  \/ PutAside
  \/ Login(1)
  \/ Refresh(1)
  \/ AuthenticateToken(1)
  \/ GetMe(1)
  \/ Deliver

\* the seeded account alone, one client, until its refresh tokens expire
SpecExpiry == Init /\ [][NextExpiry]_vars

\* ------------------------------------------------- the pool operations
\* dbQuery(text, params) or testDatabaseConnection() is called: getDbPool(),
\* then `await pool.connect()`
DbCall(o) ==
  /\ dbOp[o].pc = "idle"
  /\ \E kind \in {"dbQuery", "testDatabaseConnection"} :
       dbOp' = [dbOp EXCEPT ![o] = [kind |-> kind, pc |-> "connecting", result |-> "none"]]
  /\ UNCHANGED <<checkedOut, serverVars, clientVars, http, nextAuth, guard>>

\* pool.connect() settles: a client is handed out while the pool has one
\* left, or the promise is rejected (no server, connectionTimeoutMillis)
PoolConnect(o) ==
  /\ dbOp[o].pc = "connecting"
  /\ \/ /\ checkedOut < MaxPool
        /\ checkedOut' = checkedOut + 1
        /\ dbOp' = [dbOp EXCEPT ![o].pc = "querying"]
     \/ /\ dbOp' = [dbOp EXCEPT ![o].pc = "done",
                                 ![o].result = afterConnectRejected(dbOp[o].kind).result]
        /\ UNCHANGED checkedOut
  /\ UNCHANGED <<serverVars, clientVars, http, nextAuth, guard>>

\* client.query() settles and the operation runs to its end
ClientQuery(o) ==
  /\ dbOp[o].pc = "querying"
  /\ \E ok \in BOOLEAN :
       LET r == afterQuery(dbOp[o].kind, ok) IN
       /\ dbOp' = [dbOp EXCEPT ![o].pc = "done", ![o].result = r.result]
       /\ checkedOut' = IF r.release THEN checkedOut - 1 ELSE checkedOut
  /\ UNCHANGED <<serverVars, clientVars, http, nextAuth, guard>>

\* the caller has the outcome; the slot is free for the next operation
DbSettled(o) ==
  /\ dbOp[o].pc = "done"
  /\ dbOp' = [dbOp EXCEPT ![o] = IdleOp]
  /\ UNCHANGED <<checkedOut, serverVars, clientVars, http, nextAuth, guard>>

NextPool ==
  \/ \E o \in DbOps : DbCall(o)
  \/ \E o \in DbOps : PoolConnect(o)
  \/ \E o \in DbOps : ClientQuery(o)
  \/ \E o \in DbOps : DbSettled(o)

SpecPool == Init /\ [][NextPool]_vars

\* ------------------------------------------- the client's AuthService
\* login(credentials) or register(userData) is called: `await AuthApi.login`
SvcLogin(i) ==
  /\ svc[i].op = "none"
  /\ \E op \in {"login", "register"} :
       svc' = [svc EXCEPT ![i] = [op |-> op, currentUser |-> Absent]]
  /\ UNCHANGED <<localStorage, dateNow, cleared, serverVars, poolVars, http, nextAuth, guard>>

\* the call of AuthApi.login or AuthApi.register settles: the AuthUser is
\* stored, or the error is thrown on
SvcLoginSettled(i) ==
  /\ svc[i].op \in {"login", "register"}
  /\ \/ \E at \in ClientAccessTokens, rt \in ClientRefreshTokens :
          /\ localStorage' = storeAuthData(localStorage, AuthUser(at, rt, dateNow))
          /\ cleared' = NotCleared
     \/ UNCHANGED <<localStorage, cleared>>
  /\ svc' = [svc EXCEPT ![i] = IdleCall]
  /\ UNCHANGED <<dateNow, serverVars, poolVars, http, nextAuth, guard>>

\* refreshToken() is called: without a stored refresh token it throws at once
\* ('No refresh token available'), otherwise `await AuthApi.refreshToken`
SvcRefreshToken(i) ==
  /\ svc[i].op = "none"
  /\ getCurrentUser(localStorage) # Absent
  /\ svc' = [svc EXCEPT ![i] = [op |-> "refreshToken",
                                currentUser |-> getCurrentUser(localStorage)]]
  /\ UNCHANGED <<localStorage, dateNow, cleared, serverVars, poolVars, http, nextAuth, guard>>

\* the call of AuthApi.refreshToken settles: the updated user (new access
\* token, the refresh token read at the start) is stored, or the catch clears
\* the storage and throws ERROR_MESSAGES.UNAUTHORIZED
SvcRefreshTokenSettled(i) ==
  /\ svc[i].op = "refreshToken"
  /\ \/ \E at \in ClientAccessTokens :
          /\ localStorage' = storeAuthData(localStorage,
                                AuthUser(at, svc[i].currentUser.refreshToken, dateNow))
          /\ cleared' = IF cleared.on /\ i \in cleared.inFlight
                        THEN [cleared EXCEPT !.restored = TRUE] ELSE cleared
     \/ /\ localStorage' = clearAuthData(localStorage)
        /\ cleared' = [on |-> TRUE,
                       inFlight |-> {j \in Calls \ {i} :
                                       svc[j].op \in {"refreshToken", "updateProfile"}},
                       restored |-> FALSE]
  /\ svc' = [svc EXCEPT ![i] = IdleCall]
  /\ UNCHANGED <<dateNow, serverVars, poolVars, http, nextAuth, guard>>

\* updateProfile(userData) is called: without a stored access token it throws,
\* otherwise `await AuthApi.getCurrentUser`
SvcUpdateProfile(i) ==
  /\ svc[i].op = "none"
  /\ getCurrentUser(localStorage) # Absent
  /\ svc' = [svc EXCEPT ![i] = [op |-> "updateProfile",
                                currentUser |-> getCurrentUser(localStorage)]]
  /\ UNCHANGED <<localStorage, dateNow, cleared, serverVars, poolVars, http, nextAuth, guard>>

\* the call of AuthApi.getCurrentUser settles: the user is stored again with
\* the tokens and the expiry read at the start, or the error is thrown on
SvcUpdateProfileSettled(i) ==
  /\ svc[i].op = "updateProfile"
  /\ \/ /\ localStorage' = storeAuthData(localStorage, svc[i].currentUser)
        /\ cleared' = IF cleared.on /\ i \in cleared.inFlight
                      THEN [cleared EXCEPT !.restored = TRUE] ELSE cleared
     \/ UNCHANGED <<localStorage, cleared>>
  /\ svc' = [svc EXCEPT ![i] = IdleCall]
  /\ UNCHANGED <<dateNow, serverVars, poolVars, http, nextAuth, guard>>

\* an hour passes in the browser
ClientTick ==
  /\ dateNow < MaxClientTime
  /\ dateNow' = dateNow + 1
  /\ UNCHANGED <<localStorage, svc, cleared, serverVars, poolVars, http, nextAuth, guard>>

NextClient ==
  \/ \E i \in Calls : SvcLogin(i)
  \/ \E i \in Calls : SvcLoginSettled(i)
  \/ \E i \in Calls : SvcRefreshToken(i)
  \/ \E i \in Calls : SvcRefreshTokenSettled(i)
  \/ \E i \in Calls : SvcUpdateProfile(i)
  \/ \E i \in Calls : SvcUpdateProfileSettled(i)
  \/ ClientTick

SpecClient == Init /\ [][NextClient]_vars

\* ------------------------------------------------- HttpClient.request
\* an AuthApi function calls httpClient: request() arms the timeout timer and
\* executeRequest calls fetch for attempt 0
HttpRequest ==
  /\ http.pc = "idle"
  /\ \E api \in AuthApiCalls :
       http' = [IdleRequest EXCEPT !.pc = "fetching", !.api = api, !.sent = 1]
  /\ UNCHANGED <<serverVars, poolVars, clientVars, nextAuth, guard>>

\* the timeout timer fires before clearTimeout: controller.abort()
HttpTimeout ==
  /\ http.pc \in {"fetching", "delaying"}
  /\ ~http.aborted
  /\ http' = [http EXCEPT !.aborted = TRUE]
  /\ UNCHANGED <<serverVars, poolVars, clientVars, nextAuth, guard>>

\* `await fetch` settles (with the AbortError once the signal is aborted) and
\* executeRequest returns, throws or starts its back-off delay; on a return
\* or a throw request() clears the timer and answers
HttpFetchSettled ==
  /\ http.pc = "fetching"
  /\ \E outcome \in (IF http.aborted THEN {[error |-> "AbortError"]} ELSE FetchOutcomes) :
       LET e == executeRequest(outcome, http.attempt, RETRIES) IN
       http' = IF e.do = "delay"
               THEN [http EXCEPT !.pc = "delaying",
                                 !.delaysAfterAbort = @ + (IF http.aborted THEN 1 ELSE 0)]
               ELSE IF e.do = "throw"
               THEN [http EXCEPT !.pc = "done", !.result = handleError(e.error)]
               ELSE [http EXCEPT !.pc = "done", !.result = "response", !.status = e.status]
  /\ UNCHANGED <<serverVars, poolVars, clientVars, nextAuth, guard>>

\* the back-off delay is over: the next attempt calls fetch with the same init
\* (an aborted signal lets nothing onto the wire)
HttpDelayOver ==
  /\ http.pc = "delaying"
  /\ http' = [http EXCEPT !.pc = "fetching",
                          !.attempt = @ + 1,
                          !.sent = @ + (IF http.aborted THEN 0 ELSE 1),
                          !.fetchesAfterAbort = @ + (IF http.aborted THEN 1 ELSE 0)]
  /\ UNCHANGED <<serverVars, poolVars, clientVars, nextAuth, guard>>

\* the caller has the answer
HttpDone ==
  /\ http.pc = "done"
  /\ http' = IdleRequest
  /\ UNCHANGED <<serverVars, poolVars, clientVars, nextAuth, guard>>

NextHttp == HttpRequest \/ HttpTimeout \/ HttpFetchSettled \/ HttpDelayOver \/ HttpDone

SpecHttp == Init /\ [][NextHttp]_vars

\* ------------------------------------------------- the NextAuth session
\* signIn('credentials'): authorize posts the credentials to the API
Authorize ==
  /\ nextAuth.pc = "signedOut"
  /\ \E email \in LoginEmails, password \in LoginPasswords :
       LET user == authorize(email, password) IN
       nextAuth' = IF user = Null THEN SignedOut
                   ELSE [SignedOut EXCEPT !.pc = "authorized", !.user = user]
  /\ UNCHANGED <<serverVars, poolVars, clientVars, http, guard>>

\* the jwt callback runs with the user authorize returned
JwtSignIn ==
  /\ nextAuth.pc = "authorized"
  /\ nextAuth' = [pc |-> "session", user |-> Null, token |-> jwtSignIn(nextAuth.user), g |-> Null]
  /\ UNCHANGED <<serverVars, poolVars, clientVars, http, guard>>

\* the jwt callback runs for a session that exists
Jwt ==
  /\ nextAuth.pc = "session"
  /\ nextAuth' = [nextAuth EXCEPT
        !.token = jwt(nextAuth.token),
        !.g = [at |-> now,
               before |-> nextAuth.token,
               expired |-> nextAuth.token.accessTokenExpires # 0
                           /\ now >= nextAuth.token.accessTokenExpires,
               refresh |-> refreshRoute(nextAuth.token.refreshToken)]]
  /\ UNCHANGED <<serverVars, poolVars, clientVars, http, guard>>

\* signOut()
SignOut ==
  /\ nextAuth.pc = "session"
  /\ nextAuth' = SignedOut
  /\ UNCHANGED <<serverVars, poolVars, clientVars, http, guard>>

NextNextAuth == TickLong \/ Authorize \/ JwtSignIn \/ Jwt \/ SignOut

SpecNextAuth == Init /\ [][NextNextAuth]_vars

\* ------------------------------------------------- the role guards
\* a request reaches the middleware requireRole(roles) returned
RequireRole ==
  /\ \E roles \in SUBSET Roles, user \in {Null} \cup [id : {1}, role : Roles] :
       guard' = [guard EXCEPT !.mw = [roles |-> roles, user |-> user,
                                      did |-> requireRole(roles, user)]]
  /\ UNCHANGED <<serverVars, poolVars, clientVars, http, nextAuth>>

\* AuthGuard renders, and the effect of its hook runs
AuthGuardRender ==
  /\ \E session \in Sessions, requiredRole \in Roles \cup {""} :
       guard' = [guard EXCEPT !.ui =
                   [session |-> session, requiredRole |-> requiredRole,
                    rendered |-> AuthGuard(session, requiredRole, "/auth/signin"),
                    push |-> useAuthGuard(session, requiredRole, "/auth/signin").push]]
  /\ UNCHANGED <<serverVars, poolVars, clientVars, http, nextAuth>>

NextGuards == RequireRole \/ AuthGuardRender

SpecGuards == Init /\ [][NextGuards]_vars

\* ------------------------------------------------------------------ claims
\* the requests that have passed authenticateToken and are with their handler
PastMiddleware == {c \in Clients : req[c].route \in {"protected", "put", "delete"}}

\* C1: a token issued as the refreshToken of a pair is accepted only by the
\* refresh operation: presented to authenticateToken it never resolves an
\* identity, the middleware answers 401 and the handler is not called.
C1_RefreshTokenOnlyRefreshes ==
  /\ \A c \in PastMiddleware : req[c].g.issuedAs # "refresh"
  /\ last.op = "me" => last.g.issuedAs # "refresh"

C3_SameOutcome ==
  last.op = "login" /\ last.g.case \in {"no_record", "wrong_password"} =>
    /\ last.error = "Invalid credentials"
    /\ last.status = 401
    /\ last.message = "Invalid email or password"
    /\ last.data = Null

\* C3, reached: a login with the wrong password of an existing account
C3_WrongPassword ==
  last.op = "login" /\ last.g.case = "wrong_password" /\ last.status = 401

\* C4: refresh with a token that passes verification but whose user has no
\* record fails with 'User not found' and status 404.
C4_GoneUserIsNotFound ==
  last.op = "refresh" /\ last.g.failed = {} /\ last.g.userGone =>
    last.error = "User not found" /\ last.status = 404

\* the checks of verifyToken (the checks of validation are not among them)
VerificationChecks == {"malformed", "signature", "issuer", "audience", "expired"}

\* C5: every refresh that fails a verification check ends the same way:
\* 'Invalid or expired refresh token' from the service, status 401 and
\* 'Invalid refresh token' from the route.
C5_OneVerificationOutcome ==
  last.op = "refresh" /\ last.g.failed \cap VerificationChecks # {} =>
    /\ last.error = "Invalid or expired refresh token"
    /\ last.status = 401
    /\ last.message = "Invalid refresh token"
\* C6: register rejects with status 400, before any repository access and
\* without creating a record or issuing tokens, every request whose password
\* violates the minimum-strength policy.
C6_WeakPasswordRejected ==
  last.op = "register" /\ ~last.g.policyOk =>
    /\ last.status = 400
    /\ ~last.g.repo
    /\ ~last.g.created
    /\ ~last.g.issued

\* C7 (as the code has it): a register that passes validation while a record
\* holds its email, compared case-insensitively, fails with 'User already
\* exists' and status 409, creates no record and issues no tokens.
C7_ConflictWhileRecordExists ==
  last.op = "register" /\ last.g.repo /\ last.g.taken =>
    /\ last.error = "User already exists"
    /\ last.status = 409
    /\ last.data = Null
    /\ ~last.g.created
    /\ ~last.g.issued

\* C7, reached: A@X.C is refused while a record holds a@x.c
C7_CaseVariedRefused ==
  /\ last.op = "register"
  /\ last.g.email = "A@X.C"
  /\ last.g.taken
  /\ last.status = 409
  /\ \E u \in users : u.email = "a@x.c"

\* C7 as the specification states it: once register has succeeded for an
\* email, every later (valid) register with that email, compared
\* case-insensitively, fails with status 409 and creates nothing.
C7_ConflictForEver ==
  last.op = "register" /\ last.g.repo /\ last.g.priorReg =>
    /\ last.status = 409
    /\ ~last.g.created
    /\ ~last.g.issued

\* C8: in every state no two records hold emails that are equal under
\* case-insensitive comparison, and every stored email is lower-cased and
\* trimmed, whatever the interleaving of register and updateUser.
C8_UniqueNormalizedEmails ==
  /\ \A u1 \in users, u2 \in users : u1.id # u2.id => ~SameEmail(u1.email, u2.email)
  /\ \A u \in users : u.email = lowerTrimOf[u.email]

\* C8, reached: an updateUser that had passed its email check lost against a
\* concurrent write of the same email; its UPDATE was refused and the record
\* it aimed at is unchanged in the table
C8_UpdateLostRace ==
  /\ last.op = "put"
  /\ last.status = 404
  /\ last.g.repo = "write"
  /\ \E u \in users : u.id = last.g.target
  /\ Cardinality(users) >= 2

\* C9: of two register calls with the same normalized email that both pass
\* the existence check before either inserts, the one that does not create
\* the record fails with status 409 'User already exists'.
C9_RaceLoserGetsConflict ==
  last.op = "register" /\ last.g.raced =>
    /\ ~last.g.created
    /\ last.status = 409
    /\ last.error = "User already exists"

C11_DeletedStaysOut ==
  /\ \A c \in PastMiddleware : ~req[c].g.gone
  /\ last.op = "me" => ~last.g.gone
  /\ last.op = "authenticate" /\ last.g.gone /\ last.g.bearerForm /\ last.g.verifies =>
       last.status = 401 /\ last.message = "User not found"
  /\ last.op = "refresh" /\ last.g.userGone =>
       last.status # 200 /\ last.data = Null

\* C11, reached: the access token of a deleted account is turned away while
\* another account holds the email the token was issued for
C11_StaleTokenRefused ==
  /\ last.op = "authenticate"
  /\ last.message = "User not found"
  /\ last.g.gone /\ last.g.verifies /\ last.g.bearerForm
  /\ kept.access.kind = "jwt"
  /\ kept.access.userId = last.g.tokenUser
  /\ \E u \in users : u.email = kept.access.email /\ u.id # kept.access.userId
\* C12: optionalAuth calls the handler exactly once and sends no response;
\* req.user is set exactly when the header has the form 'Bearer <token>',
\* the token verifies and the repository yields the user's record, and is
\* unset on every failure (the repository being down among them).
C12_OptionalAuthNeverRejects ==
  last.op = "optionalAuth" =>
    /\ last.g.next = 1
    /\ last.status = 0
    /\ last.data # Null <=>
         last.g.bearerForm /\ last.g.verifies /\ last.g.record # Null /\ last.g.dbUp
    /\ last.data # Null => last.data = last.g.record

\* C12, reached: a verifying token of an existing user while the repository
\* is down: the request goes on without identity
C12_RepositoryDown ==
  /\ last.op = "optionalAuth"
  /\ last.g.bearerForm /\ last.g.verifies /\ last.g.record # Null
  /\ ~last.g.dbUp
  /\ last.data = Null
C14_OnlyExpiryEndsValidity ==
  /\ \A t \in HeldTokens :
       /\ "expired" \notin FailedChecks(t) => verifyToken(t).ok
       /\ "expired" \notin FailedChecks(t) /\ RecordOf(t) # Null =>
            authenticateToken(<<Text("Bearer"), t>>).next = 1
  /\ last.op = "authenticate" /\ last.g.bearerForm /\ last.g.record # Null
       /\ last.g.issuedAs \in {"access", "refresh"} =>
         last.message = "Token has expired"

\* C14, reached: a request passes with a token issued before the user's
\* email was changed
C14_AfterEmailChange ==
  /\ kept.access.kind = "jwt"
  /\ \E c \in Clients :
       /\ pc[c] = "authenticated"
       /\ req[c].g.tokenUser = kept.access.userId
       /\ req[c].user.email # kept.access.email
\* C15: a successful refresh delivers the user, a new access token and a new
\* refresh token, in the body of the 200 response of POST /api/auth/refresh
\* as in the value AuthService.refreshToken returns.
C15_RefreshDeliversPair ==
  last.op = "refresh" /\ last.status = 200 =>
    {"user", "accessToken", "refreshToken"} \subseteq DOMAIN last.data
\* the payload verifyToken returns for a token
PayloadOf(t) == [userId |-> t.userId, email |-> t.email, iat |-> t.iat, exp |-> t.exp]

\* times to live that lie in the past
NegativeTtls == {-1, -2}

\* C16: for every correctly signed token with the fixed issuer and audience
\* and every instant now, verifyToken throws 'Token has expired' when
\* now >= exp and returns the payload when now < exp, without tolerance; a
\* token signed with a negative time to live never verifies.
C16_ExpiryBoundary ==
  /\ \A t \in HeldTokens :
       verifyToken(t) =
         IF now >= t.exp THEN Throw("Token has expired")
         ELSE [ok |-> TRUE, error |-> "", decoded |-> PayloadOf(t)]
  /\ \A ttl \in NegativeTtls, u \in users :
       verifyToken(jwtSign([userId |-> u.id, email |-> u.email], JWT_SECRET,
                           ttl, Issuer, Audience))
         = Throw("Token has expired")

\* C16, reached: the access token is presented at the very instant it expires
\* and is refused as expired
C16_AtTheBoundary ==
  /\ last.op = "authenticate"
  /\ last.g.issuedAs = "access"
  /\ last.message = "Token has expired"
  /\ \E t \in HeldTokens : t.userId = last.g.tokenUser /\ t.exp = now
\* C17: verifyToken checks signature, issuer, audience and expiry in that
\* order and the first failing check decides the error: a token with a bad
\* signature, a wrong issuer or a wrong audience fails with 'Invalid token'
\* whether it has expired or not.
C17_ChecksInOrder ==
  \A t \in TokenStrings :
    t.kind = "jwt" =>
      verifyToken(t) =
        IF FailedChecks(t) \cap {"signature", "issuer", "audience"} # {}
          THEN Throw("Invalid token")
        ELSE IF "expired" \in FailedChecks(t) THEN Throw("Token has expired")
        ELSE [ok |-> TRUE, error |-> "", decoded |-> PayloadOf(t)]
\* C18: register answers 201 with the id of the record it created, and a
\* later login with that record's email in any letter case and its password
\* succeeds and returns the id of that record, hence the id register returned
\* as long as the record is neither deleted nor changed.
C18_RegisterThenLogin ==
  /\ last.op = "register" /\ last.status = 201 =>
       \E u \in users :
         u.id = last.data.user.id /\ u.email = lowerTrimOf[last.g.email]
  /\ last.op = "login" /\ last.g.case = "correct" =>
       /\ last.status = 200
       /\ \E u \in users :
            SameEmail(u.email, last.g.email) /\ u.id = last.data.user.id

\* C18, reached: a registered user logs in with the email in capitals
C18_LoginInCapitals ==
  /\ last.op = "login"
  /\ last.status = 200
  /\ last.g.email = "A@X.C"
  /\ last.data.user.id >= 2
\* a user value that carries no password hash
HashFree(u) == DOMAIN u \cap {"passwordHash", "password_hash"} = {}

\* C19: in every state, the user in what register, login, refreshToken and
\* validateToken return, and the identity authenticateToken and optionalAuth
\* attach to a request, hold no passwordHash field.
C19_NoPasswordHash ==
  /\ last.op \in {"register", "login", "refresh"} /\ last.data # Null =>
       HashFree(last.data.user)
  /\ last.op \in {"me", "optionalAuth"} /\ last.data # Null => HashFree(last.data)
  /\ \A c \in PastMiddleware : HashFree(req[c].user)
  /\ \A t \in TokenStrings :
       /\ validateToken(t) # Null => HashFree(validateToken(t))
       /\ t.kind = "jwt" /\ refreshToken(t).ok => HashFree(refreshToken(t).user)

\* C19, reached: login returns the user of a record that stores a hash, and
\* validateToken returns that user for the token of the response
C19_LoginOfStoredHash ==
  /\ last.op = "login"
  /\ last.status = 200
  /\ \E u \in users : u.id = last.data.user.id /\ "password_hash" \in DOMAIN u
  /\ validateToken(last.data.token) = last.data.user
\* C20: login with correct credentials answers with its successful result
\* whatever becomes of the last-login update: done, failed or still pending.
C20_LoginIgnoresLastLogin ==
  last.op = "login" /\ last.g.case = "correct" =>
    /\ last.g.lastLogin \in UpdateFates
    /\ last.status = 200
    /\ last.data # Null
    /\ verifyToken(last.data.token).ok
    /\ verifyToken(last.data.refreshToken).ok

\* C20, reached: a login succeeds although the update has failed
C20_UpdateFailed ==
  /\ last.op = "login"
  /\ last.status = 200
  /\ last.g.lastLogin = "fails"
\* C21: every pool client that is checked out belongs to an operation that is
\* still running: once dbQuery or testDatabaseConnection has completed, on
\* success or on a throwing query, its client is back in the pool.
C21_NoClientLeftOut ==
  checkedOut = Cardinality({o \in DbOps : dbOp[o].pc = "querying"})

\* the stored identity is gone: the three entries are absent, getCurrentUser()
\* is null and isAuthenticated() is false
IdentityCleared ==
  /\ \A k \in AuthKeys : localStorage[k] = Absent
  /\ getCurrentUser(localStorage) = Absent
  /\ ~isAuthenticated(localStorage, dateNow)

\* C22 (as stated): after a failed refresh the stored identity stays cleared
\* until a later login or register succeeds.
C22_ClearedUntilLogin == cleared.on => IdentityCleared

\* C22 (amended): after a failed refresh the stored identity stays cleared
\* until a login or register succeeds, or until a refreshToken() or
\* updateProfile() call that was already awaiting its response when the
\* refresh failed succeeds and stores its user.
C22_ClearedUntilStored == cleared.on /\ ~cleared.restored => IdentityCleared

\* C22, reached: a refresh has failed while another call was in flight, and
\* the identity is cleared
C22_RefreshFailed ==
  /\ cleared.on
  /\ cleared.inFlight # {}
  /\ ~cleared.restored
  /\ IdentityCleared

\* C23: for one call of AuthApi.refreshToken the refresh request goes to the
\* server at most once, whatever the server answers.
C23_RefreshSentOnce == http.api = "refreshToken" => http.sent <= 1

\* C30: once the timeout timer has aborted the request, no further fetch is
\* called and no further back-off delay is started.
C30_TimeoutEndsRetries ==
  http.aborted => http.fetchesAfterAbort = 0 /\ http.delaysAfterAbort = 0

\* C24: when the jwt callback runs with an expired accessTokenExpires and
\* POST /api/auth/refresh answers 200 for its refresh token, the token it
\* returns carries the newly issued access token, a later expiry and no error.
C24_AutomaticRefreshWorks ==
  (nextAuth.g # Null /\ nextAuth.g.expired /\ nextAuth.g.refresh.status = 200) =>
    /\ nextAuth.token.error = ""
    /\ nextAuth.token.accessToken = nextAuth.g.refresh.data.accessToken
    /\ nextAuth.token.accessTokenExpires > nextAuth.g.before.accessTokenExpires

\* C29: at every instant at which the jwt callback finds the token unexpired
\* and returns it unchanged, verifyToken of the API accepts its access token.
C29_ClientValidIsServerValid ==
  (nextAuth.g # Null /\ nextAuth.g.at = now /\ ~nextAuth.g.expired) =>
    verifyToken(nextAuth.token.accessToken).ok

\* C25: the middleware of requireRole(roles) calls the handler only for an
\* attached identity whose role is one of roles, and answers 401 when no
\* identity is attached.
C25_OnlyListedRolesPass ==
  guard.mw # Null =>
    /\ guard.mw.did.next => guard.mw.user # Null /\ guard.mw.user.role \in guard.mw.roles
    /\ guard.mw.user = Null => guard.mw.did.status = 401

\* C26: AuthGuard with requiredRole = R renders its children only for an
\* authenticated session whose role is R and which carries no
\* RefreshAccessTokenError; a loading session gets the fallback.
C26_ChildrenOnlyForRole ==
  (guard.ui # Null /\ guard.ui.requiredRole # "") =>
    /\ guard.ui.rendered = "children" =>
          /\ guard.ui.session.status = "authenticated"
          /\ guard.ui.session.role = guard.ui.requiredRole
          /\ guard.ui.session.error # "RefreshAccessTokenError"
    /\ guard.ui.session.status = "loading" => guard.ui.rendered = "fallback"

\* C27: every successful refresh returns a new pair: at every instant, for
\* every token the clients hold, the refresh token AuthService.refreshToken
\* returns differs from the token presented, and the access token it returns
\* differs from every access token issued before for that user.
C27_RefreshedPairIsNew ==
  \A t \in HeldTokens :
    LET r == refreshToken(t) IN
    r.ok =>
      /\ r.refreshToken # t
      /\ \A a \in HeldTokens :
           IssuedAs(a) = "access" /\ a.userId = r.user.id => r.token # a

\* C28: AuthService.refreshToken issues a pair only for a token that was
\* issued as a refresh token: an access token presented to POST
\* /api/auth/refresh is refused.
C28_AccessTokenDoesNotRefresh ==
  last.op = "refresh" /\ last.g.issuedAs = "access" => last.status # 200

====
